---- MODULE Spec2Model ----
(***************************************************************************)
(* Model of scripts/odds_compact.py: the market extraction                 *)
(* (_pick_bookmaker, _nearest_to, _line_from, extract_markets), the merge  *)
(* of odds responses in main, and the snapshot store (save_snapshot,       *)
(* prune_old_snapshots).                                                   *)
(*                                                                         *)
(* Texts (bet names, outcome labels, handicap lines, file names, dates)    *)
(* are sequences of one-character strings, so that the regular expressions *)
(* and the substring / suffix tests of the source are computed, not        *)
(* assumed.  A Python None is the empty sequence <<>> and a present value  *)
(* x is <<x>> where the two must be told apart (odds, picks, results).     *)
(***************************************************************************)
EXTENDS Integers, Sequences, FiniteSets, TLC

VARIABLES
    books,      \* extract_markets: the bookmakers list of one odds item
    hit,        \* result of the last _pick_bookmaker call
    out,        \* result of the last extract_markets call
    items,      \* main: the odds items of the run, in processing order
    idx,        \* main: position of the next odds item
    by_fixture, \* main: fixture id -> markets dict
    pc,         \* main: where the run stands
    err,        \* main: the exception that left main, if any
    now,        \* time.time(), in seconds
    fs,         \* the files under out_dir: path -> None or Some(file)
    retention_days,
    runs,       \* runs started so far
    date,       \* out["date"] of the current run
    content,    \* the snapshot of the current run
    saved,      \* gz_path returned by save_snapshot, if it returned
    walk,       \* prune_old_snapshots: the files os.walk lists, in order
    todo,       \* prune_old_snapshots: the files of walk not yet visited
    removed,    \* prune_old_snapshots: the list it returns
    stdout,     \* the summary printed by the current run, if any
    caller,     \* who called prune_old_snapshots: "main" or "direct"
    fs0,        \* history: fs when the current run started
    fsp,        \* history: fs when the current prune call started
    log,        \* history: the steps of the current run
    caught,     \* history: the files whose stat/remove raised in this call
    firstClean  \* history: the call before a direct one caught nothing

extractVars == <<books, hit, out>>
mergeVars   == <<items, idx, by_fixture>>
storeVars   == <<now, fs, retention_days, runs, date, content, saved, walk, todo,
                 removed, stdout, caller, fs0, fsp, log, caught, firstClean>>
vars        == <<extractVars, mergeVars, pc, err, storeVars>>

----------------------------------------------------------------------------
(* Characters and texts *)

Lower(c) ==
    CASE c = "A" -> "a" [] c = "B" -> "b" [] c = "C" -> "c" [] c = "D" -> "d"
      [] c = "E" -> "e" [] c = "F" -> "f" [] c = "G" -> "g" [] c = "H" -> "h"
      [] c = "I" -> "i" [] c = "J" -> "j" [] c = "K" -> "k" [] c = "L" -> "l"
      [] c = "M" -> "m" [] c = "N" -> "n" [] c = "O" -> "o" [] c = "P" -> "p"
      [] c = "Q" -> "q" [] c = "R" -> "r" [] c = "S" -> "s" [] c = "T" -> "t"
      [] c = "U" -> "u" [] c = "V" -> "v" [] c = "W" -> "w" [] c = "X" -> "x"
      [] c = "Y" -> "y" [] c = "Z" -> "z" [] OTHER -> c

\* str.lower()
LowerStr(s) == [k \in 1..Len(s) |-> Lower(s[k])]

IsDigit(c) == c \in {"0", "1", "2", "3", "4", "5", "6", "7", "8", "9"}

DigitVal(c) ==
    CASE c = "0" -> 0 [] c = "1" -> 1 [] c = "2" -> 2 [] c = "3" -> 3
      [] c = "4" -> 4 [] c = "5" -> 5 [] c = "6" -> 6 [] c = "7" -> 7
      [] c = "8" -> 8 [] c = "9" -> 9

\* `sub in s` of Python strings
Contains(s, sub) ==
    \E i \in 1..(Len(s) + 1) :
        /\ i + Len(sub) - 1 <= Len(s)
        /\ \A k \in 1..Len(sub) : s[i + k - 1] = sub[k]

\* s.endswith(suf)
EndsWith(s, suf) ==
    /\ Len(suf) <= Len(s)
    /\ \A k \in 1..Len(suf) : s[Len(s) - Len(suf) + k] = suf[k]

----------------------------------------------------------------------------
(* Regular expressions: the constructs the source's patterns use.          *)
(* Ends(r, s, i, ic) is the set of positions at which a match of r that    *)
(* starts at position i of s can end (every way the backtracking matcher   *)
(* can succeed); ic is re.I.                                               *)

Lit(cs)     == [t |-> "lit", cs |-> cs]
Cat(rs)     == [t |-> "cat", rs |-> rs]
Alt(rs)     == [t |-> "alt", rs |-> rs]
Opt(r)      == [t |-> "opt", r |-> r]
NegLook(r)  == [t |-> "neglook", r |-> r]
WS          == [t |-> "ws"]        \* \s*
Digits      == [t |-> "digits"]    \* \d+
AnyStar     == [t |-> "anystar"]   \* .*
Bol         == [t |-> "bol"]       \* ^
Eol         == [t |-> "eol"]       \* $

RECURSIVE Ends(_, _, _, _)
Ends(r, s, i, ic) ==
    CASE r.t = "lit" ->
            IF /\ i + Len(r.cs) - 1 <= Len(s)
               /\ \A k \in 1..Len(r.cs) :
                    IF ic THEN Lower(s[i + k - 1]) = Lower(r.cs[k])
                          ELSE s[i + k - 1] = r.cs[k]
            THEN {i + Len(r.cs)} ELSE {}
      [] r.t = "cat" ->
            IF r.rs = <<>> THEN {i}
            ELSE UNION { Ends(Cat(Tail(r.rs)), s, j, ic) :
                            j \in Ends(Head(r.rs), s, i, ic) }
      [] r.t = "alt" ->
            UNION { Ends(r.rs[k], s, i, ic) : k \in 1..Len(r.rs) }
      [] r.t = "opt" -> {i} \cup Ends(r.r, s, i, ic)
      [] r.t = "neglook" -> IF Ends(r.r, s, i, ic) = {} THEN {i} ELSE {}
      [] r.t = "ws" ->
            { j \in i..(Len(s) + 1) : \A k \in i..(j - 1) : s[k] = " " }
      [] r.t = "digits" ->
            { j \in (i + 1)..(Len(s) + 1) : \A k \in i..(j - 1) : IsDigit(s[k]) }
      [] r.t = "anystar" -> i..(Len(s) + 1)
      [] r.t = "bol" -> IF i = 1 THEN {i} ELSE {}
      [] r.t = "eol" -> IF i = Len(s) + 1 THEN {i} ELSE {}

\* re.match(r, s) is not None
ReMatch(r, s, ic) == Ends(r, s, 1, ic) # {}

\* re.search(r, s) is not None
ReSearch(r, s, ic) == \E i \in 1..(Len(s) + 1) : Ends(r, s, i, ic) # {}

Max(S) == CHOOSE x \in S : \A y \in S : y <= x
Min(S) == CHOOSE x \in S : \A y \in S : x <= y

\* re.search(r, s).group(0) for a pattern whose greedy match is its longest
\* one (the number pattern); <<>> when there is no match at all.
ReSearchGroup0(r, s, ic) ==
    LET Group(i) == << SubSeq(s, i, Max(Ends(r, s, i, ic)) - 1) >>
        Leftmost(starts) == IF starts = {} THEN <<>> ELSE Group(Min(starts))
    IN  Leftmost({ i \in 1..(Len(s) + 1) : Ends(r, s, i, ic) # {} })

----------------------------------------------------------------------------
(* Config *)

PREFERRED_BOOKMAKERS ==
    << <<"P", "i", "n", "n", "a", "c", "l", "e">>, <<"b", "e", "t", "3", "6", "5">>, <<"B", "e", "t", "f", "a", "i", "r">>, <<"B", "e", "t", "w", "a", "y">>, <<"W", "i", "l", "l", "i", "a", "m", " ", "H", "i", "l", "l">>, <<"B", "w", "i", "n">> >>

\* r"^(match\s*winner|1x2|win\s*draw\s*win)$", re.I
RX_MATCH_WINNER ==
    Cat(<< Bol,
           Alt(<< Cat(<< Lit(<<"m", "a", "t", "c", "h">>), WS, Lit(<<"w", "i", "n", "n", "e", "r">>) >>),
                  Lit(<<"1", "x", "2">>),
                  Cat(<< Lit(<<"w", "i", "n">>), WS, Lit(<<"d", "r", "a", "w">>), WS, Lit(<<"w", "i", "n">>) >>) >>),
           Eol >>)

\* r"(over\s*/\s*under|totals?)", re.I
RX_OVER_UNDER ==
    Alt(<< Cat(<< Lit(<<"o", "v", "e", "r">>), WS, Lit(<<"/">>), WS, Lit(<<"u", "n", "d", "e", "r">>) >>),
           Cat(<< Lit(<<"t", "o", "t", "a", "l">>), Opt(Lit(<<"s">>)) >>) >>)

\* r"(^both\s*teams\s*to\s*score$|^BTTS$)", re.I
RX_BTTS ==
    Alt(<< Cat(<< Bol, Lit(<<"b", "o", "t", "h">>), WS, Lit(<<"t", "e", "a", "m", "s">>), WS, Lit(<<"t", "o">>), WS,
                  Lit(<<"s", "c", "o", "r", "e">>), Eol >>),
           Cat(<< Bol, Lit(<<"B", "T", "T", "S">>), Eol >>) >>)

\* r"(^asian\s*handicap$|^handicap(?!.*corners|.*cards))", re.I
RX_HANDICAP ==
    Alt(<< Cat(<< Bol, Lit(<<"a", "s", "i", "a", "n">>), WS, Lit(<<"h", "a", "n", "d", "i", "c", "a", "p">>), Eol >>),
           Cat(<< Bol, Lit(<<"h", "a", "n", "d", "i", "c", "a", "p">>),
                  NegLook(Alt(<< Cat(<< AnyStar, Lit(<<"c", "o", "r", "n", "e", "r", "s">>) >>),
                                 Cat(<< AnyStar, Lit(<<"c", "a", "r", "d", "s">>) >>) >>)) >>) >>)

\* r"^(1(st)?|first)\s*half\s*(winner|1x2)", re.I
RX_FIRST_HALF_WIN ==
    Cat(<< Bol,
           Alt(<< Cat(<< Lit(<<"1">>), Opt(Lit(<<"s", "t">>)) >>), Lit(<<"f", "i", "r", "s", "t">>) >>),
           WS, Lit(<<"h", "a", "l", "f">>), WS,
           Alt(<< Lit(<<"w", "i", "n", "n", "e", "r">>), Lit(<<"1", "x", "2">>) >>) >>)

\* r"-?\d+(?:\.\d+)?"
RX_NUMBER == Cat(<< Opt(Lit(<<"-">>)), Digits, Opt(Cat(<< Lit(<<".">>), Digits >>)) >>)

\* The outcome patterns written inline in extract_markets.
RX_OVER       == Cat(<< Bol, Lit(<<"o", "v", "e", "r">>) >>)                \* (?i)^over
RX_UNDER      == Cat(<< Bol, Lit(<<"u", "n", "d", "e", "r">>) >>)               \* (?i)^under
RX_DRAW       == Lit(<<"d", "r", "a", "w">>)                                \* draw, re.I
RX_HOME       == Lit(<<"h", "o", "m", "e">>)                                \* home, re.I
RX_AWAY       == Lit(<<"a", "w", "a", "y">>)                                \* away, re.I
\* -?1(?:\.0)?$
RX_LINE_M1    == Cat(<< Opt(Lit(<<"-">>)), Lit(<<"1">>), Opt(Lit(<<".", "0">>)), Eol >>)
\* ^\+?1(?:\.0)?$
RX_LINE_P1    == Cat(<< Bol, Opt(Lit(<<"+">>)), Lit(<<"1">>), Opt(Lit(<<".", "0">>)), Eol >>)
\* (?i)^home\s*-1(?:\.0)?$
RX_HOME_M1    == Cat(<< Bol, Lit(<<"h", "o", "m", "e">>), WS, Lit(<<"-", "1">>), Opt(Lit(<<".", "0">>)), Eol >>)
\* (?i)^away\s*\+1(?:\.0)?$
RX_AWAY_P1    == Cat(<< Bol, Lit(<<"a", "w", "a", "y">>), WS, Lit(<<"+", "1">>), Opt(Lit(<<".", "0">>)), Eol >>)

----------------------------------------------------------------------------
(* Python values *)

None == <<>>
Some(x) == <<x>>

\* bool(odd) of an odd that is None or a number
Truthy(o) == o # None /\ o[1] # 0

\* A dict is the sequence of its (key, value) entries in insertion order.
DictKeys(d) == { d[k][1] : k \in 1..Len(d) }

DictGet(d, key) ==
    IF key \in DictKeys(d)
    THEN Some(d[CHOOSE k \in 1..Len(d) : d[k][1] = key][2])
    ELSE None

\* d[key] = val
DictSet(d, key, val) ==
    IF key \in DictKeys(d)
    THEN [k \in 1..Len(d) |-> IF d[k][1] = key THEN <<key, val>> ELSE d[k]]
    ELSE Append(d, <<key, val>>)

\* d.update(m)
RECURSIVE DictUpdate(_, _)
DictUpdate(d, m) ==
    IF m = <<>> THEN d
    ELSE DictUpdate(DictSet(d, Head(m)[1], Head(m)[2]), Tail(m))

----------------------------------------------------------------------------
(* Parsing helpers *)

\* str(v.get("value", "")).lower() == v.lower()
ValEq(lit, ov) == LowerStr(ov.value) = LowerStr(lit)

\* str(v.get("handicap") or v.get("value", ""))
LineText(v) == IF v.handicap # <<>> THEN v.handicap ELSE v.value

\* float() of a text the number pattern matched, in hundredths (texts of the
\* model carry at most two decimals).
RECURSIVE DigitsVal(_)
DigitsVal(ds) ==
    IF ds = <<>> THEN 0
    ELSE 10 * DigitsVal(SubSeq(ds, 1, Len(ds) - 1)) + DigitVal(ds[Len(ds)])

ParseFloat(t) ==
    LET neg  == t # <<>> /\ t[1] = "-"
        body == IF neg THEN Tail(t) ELSE t
        dots == { k \in 1..Len(body) : body[k] = "." }
        ip   == IF dots = {} THEN body ELSE SubSeq(body, 1, Min(dots) - 1)
        fp   == IF dots = {} THEN <<>> ELSE SubSeq(body, Min(dots) + 1, Len(body))
        f2   == SubSeq(fp \o << "0", "0" >>, 1, 2)
        mag  == 100 * DigitsVal(ip) + DigitsVal(f2)
    IN  IF neg THEN 0 - mag ELSE mag

Abs(x) == IF x < 0 THEN 0 - x ELSE x

_line_from(v) ==
    IF v = None THEN <<>>
    ELSE IF v[1].handicap # <<>> THEN v[1].handicap
    ELSE LET m == ReSearchGroup0(RX_NUMBER, v[1].value, FALSE)
         IN  IF m # None THEN m[1] ELSE <<>>

\* A call result: the returned value, or an uncaught exception.
Return(x) == [raised |-> FALSE, val |-> x]
Raise(e)  == [raised |-> TRUE, val |-> e]

\* The third argument of _nearest_to: an object that is callable or not; a
\* callable one is given by the set of values it accepts.
NotCallable == [callable |-> FALSE, accepts |-> {}]

RECURSIVE NearestLoop(_, _, _, _, _)
NearestLoop(target, arr, predicate, best, best_dist) ==
    IF arr = <<>> THEN Return(best)
    ELSE IF ~predicate.callable THEN Raise("TypeError")
    ELSE LET Closer(ov, d) ==
                 IF best = None \/ d < best_dist
                 THEN NearestLoop(target, Tail(arr), predicate, Some(ov), d)
                 ELSE NearestLoop(target, Tail(arr), predicate, best, best_dist)
             Body(ov, m) ==
                 IF ov \notin predicate.accepts \/ m = None
                 THEN NearestLoop(target, Tail(arr), predicate, best, best_dist)
                 ELSE Closer(ov, Abs(ParseFloat(m[1]) - target))
         IN  Body(Head(arr), ReSearchGroup0(RX_NUMBER, LineText(Head(arr)), FALSE))

_nearest_to(target, arr, predicate) ==
    NearestLoop(target, arr, predicate, None, 0)

----------------------------------------------------------------------------
(* _pick_bookmaker *)

\* next((x for x in seq if cond(x)), None), given flags[k] = cond(seq[k]):
\* the position of the first element satisfying the condition, 0 when there
\* is none
FirstPos(flags) ==
    IF \E k \in 1..Len(flags) : flags[k]
    THEN Min({ k \in 1..Len(flags) : flags[k] })
    ELSE 0

\* PREFERRED_BOOKMAKERS.index(name) if name in PREFERRED_BOOKMAKERS
\* else len(PREFERRED_BOOKMAKERS) + 1
PrefRank(name) ==
    IF \E k \in 1..Len(PREFERRED_BOOKMAKERS) : PREFERRED_BOOKMAKERS[k] = name
    THEN Min({ k \in 1..Len(PREFERRED_BOOKMAKERS) : PREFERRED_BOOKMAKERS[k] = name }) - 1
    ELSE Len(PREFERRED_BOOKMAKERS) + 1

Score(name, bet) ==
    (Len(PREFERRED_BOOKMAKERS) + 2 - PrefRank(name)) * 100 + Len(bet.values)

\* Mutant of Better: a later bookmaker wins a tie
Better_OrEqual(best, score, best_score) == best = None \/ score >= best_score

\* best is None or score > best_score
Better(best, score, best_score) == best = None \/ score > best_score

\* The loop of _pick_bookmaker from position k on.  A pick carries, besides
\* book and bet, their positions in the input (the identity of the objects).
RECURSIVE PickLoop(_, _, _, _, _)
PickLoop(bks, rx, k, best, best_score) ==
    IF k > Len(bks) THEN best
    ELSE LET Scored(book, bp, score) ==
                 IF Better(best, score, best_score)
                 THEN PickLoop(bks, rx, k + 1,
                               Some([book |-> book, bet |-> book.bets[bp],
                                     pos |-> k, betpos |-> bp]),
                               score)
                 ELSE PickLoop(bks, rx, k + 1, best, best_score)
             Body(book, bp) ==
                 IF bp = 0 THEN PickLoop(bks, rx, k + 1, best, best_score)
                 ELSE Scored(book, bp, Score(book.name, book.bets[bp]))
         IN  Body(bks[k], FirstPos([j \in 1..Len(bks[k].bets) |->
                                      ReSearch(rx, bks[k].bets[j].name, TRUE)]))

_pick_bookmaker(bks, rx) == PickLoop(bks, rx, 1, None, 0)

----------------------------------------------------------------------------
(* extract_markets *)

\* next((v.get("odd") for v in vals if cond(v)), None)
FirstOdd(vals, flags) ==
    LET k == FirstPos(flags) IN IF k = 0 THEN None ELSE vals[k].odd

\* next((v for v in vals if cond(v)), None)
FirstVal(vals, flags) ==
    LET k == FirstPos(flags) IN IF k = 0 THEN None ELSE Some(vals[k])

\* [v for v in vals if cond(v)]
RECURSIVE Filter(_, _)
Filter(vals, flags) ==
    IF vals = <<>> THEN <<>>
    ELSE (IF Head(flags) THEN << Head(vals) >> ELSE <<>>)
         \o Filter(Tail(vals), Tail(flags))

\* (pick or {}).get("odd")
OddOf(pick) == IF pick = None THEN None ELSE pick[1].odd

TARGET == 250    \* target = 2.5, in hundredths

IsOver(v)  == ReMatch(RX_OVER, v.value, TRUE)
IsUnder(v) == ReMatch(RX_UNDER, v.value, TRUE)
HasTargetText(v) == Contains(LineText(v), <<"2", ".", "5">>)

\* The Match Winner block: the entries it adds to out.
MatchWinnerMarket(bks) ==
    LET Entry(home, draw, away, bookmaker) ==
            IF Truthy(home) \/ Truthy(draw) \/ Truthy(away)
            THEN << <<"matchWinner",
                      [home |-> home, draw |-> draw, away |-> away,
                       bookmaker |-> bookmaker]>> >>
            ELSE <<>>
        Block(vals, bookmaker) ==
            Entry(FirstOdd(vals, [k \in 1..Len(vals) |->
                     ValEq(<<"H", "o", "m", "e">>, vals[k]) \/ ValEq(<<"1">>, vals[k])]),
                  FirstOdd(vals, [k \in 1..Len(vals) |->
                     \/ ValEq(<<"D", "r", "a", "w">>, vals[k])
                     \/ ValEq(<<"X">>, vals[k])
                     \/ ReSearch(RX_DRAW, vals[k].value, TRUE)]),
                  FirstOdd(vals, [k \in 1..Len(vals) |->
                     ValEq(<<"A", "w", "a", "y">>, vals[k]) \/ ValEq(<<"2">>, vals[k])]),
                  bookmaker)
        Hit(h) == IF h = None THEN <<>>
                  ELSE Block(h[1].bet.values, h[1].book.name)
    IN  Hit(_pick_bookmaker(bks, RX_MATCH_WINNER))

\* exact or _nearest_to(target, arr, target): the third argument the source
\* passes is the float target, not a predicate.
ExactOrNearest(exact, arr) ==
    IF exact # None THEN Return(exact)
    ELSE _nearest_to(TARGET, arr, NotCallable)

\* The Over/Under block: the entries it adds to out, or the exception.
OverUnderMarket(bks) ==
    LET Entry(over_pick, under_pick, first, bookmaker) ==
            Return(<< <<"overUnder",
                        [line |-> IF _line_from(first) # <<>>
                                  THEN _line_from(first) ELSE <<"2", ".", "5">>,
                         over |-> OddOf(over_pick),
                         under |-> OddOf(under_pick),
                         bookmaker |-> bookmaker]>> >>)
        Picked(over_pick, under_pick, bookmaker) ==
            IF over_pick.raised THEN over_pick
            ELSE IF under_pick.raised THEN under_pick
            ELSE IF over_pick.val # None \/ under_pick.val # None
            THEN Entry(over_pick.val, under_pick.val,
                       IF over_pick.val # None THEN over_pick.val
                       ELSE under_pick.val,
                       bookmaker)
            ELSE Return(<<>>)
        Block(vals, bookmaker) ==
            Picked(ExactOrNearest(
                       FirstVal(vals, [k \in 1..Len(vals) |->
                           IsOver(vals[k]) /\ HasTargetText(vals[k])]),
                       Filter(vals, [k \in 1..Len(vals) |-> IsOver(vals[k])])),
                   ExactOrNearest(
                       FirstVal(vals, [k \in 1..Len(vals) |->
                           IsUnder(vals[k]) /\ HasTargetText(vals[k])]),
                       Filter(vals, [k \in 1..Len(vals) |-> IsUnder(vals[k])])),
                   bookmaker)
        Hit(h) == IF h = None THEN Return(<<>>)
                  ELSE Block(h[1].bet.values, h[1].book.name)
    IN  Hit(_pick_bookmaker(bks, RX_OVER_UNDER))

\* The Both Teams To Score block
BttsMarket(bks) ==
    LET Entry(yes, no, bookmaker) ==
            IF Truthy(yes) \/ Truthy(no)
            THEN << <<"btts", [yes |-> yes, no |-> no, bookmaker |-> bookmaker]>> >>
            ELSE <<>>
        Block(vals, bookmaker) ==
            Entry(FirstOdd(vals, [k \in 1..Len(vals) |-> ValEq(<<"Y", "e", "s">>, vals[k])]),
                  FirstOdd(vals, [k \in 1..Len(vals) |-> ValEq(<<"N", "o">>, vals[k])]),
                  bookmaker)
        Hit(h) == IF h = None THEN <<>>
                  ELSE Block(h[1].bet.values, h[1].book.name)
    IN  Hit(_pick_bookmaker(bks, RX_BTTS))

IsHomeMinus1(v) ==
    \/ /\ ReSearch(RX_HOME, v.value, TRUE)
       /\ ReSearch(RX_LINE_M1, LineText(v), FALSE)
    \/ ReMatch(RX_HOME_M1, v.value, TRUE)

IsAwayPlus1(v) ==
    \/ /\ ReSearch(RX_AWAY, v.value, TRUE)
       /\ ReSearch(RX_LINE_P1, LineText(v), FALSE)
    \/ ReMatch(RX_AWAY_P1, v.value, TRUE)

HandicapMarket(bks) ==
    LET Entry(home_m1, away_p1, bookmaker) ==
            IF Truthy(home_m1) \/ Truthy(away_p1)
            THEN << <<"handicap",
                      [homeMinus1 |-> home_m1, awayPlus1 |-> away_p1,
                       bookmaker |-> bookmaker]>> >>
            ELSE <<>>
        Block(vals, bookmaker) ==
            Entry(FirstOdd(vals, [k \in 1..Len(vals) |-> IsHomeMinus1(vals[k])]),
                  FirstOdd(vals, [k \in 1..Len(vals) |-> IsAwayPlus1(vals[k])]),
                  bookmaker)
        Hit(h) == IF h = None THEN <<>>
                  ELSE Block(h[1].bet.values, h[1].book.name)
    IN  Hit(_pick_bookmaker(bks, RX_HANDICAP))

\* The First Half Winner block
FirstHalfWinnerMarket(bks) ==
    LET Entry(home, draw, away, bookmaker) ==
            IF Truthy(home) \/ Truthy(draw) \/ Truthy(away)
            THEN << <<"firstHalfWinner",
                      [home |-> home, draw |-> draw, away |-> away,
                       bookmaker |-> bookmaker]>> >>
            ELSE <<>>
        Block(vals, bookmaker) ==
            Entry(FirstOdd(vals, [k \in 1..Len(vals) |->
                     ValEq(<<"H", "o", "m", "e">>, vals[k]) \/ ValEq(<<"1">>, vals[k])]),
                  FirstOdd(vals, [k \in 1..Len(vals) |->
                     ValEq(<<"D", "r", "a", "w">>, vals[k]) \/ ValEq(<<"X">>, vals[k])]),
                  FirstOdd(vals, [k \in 1..Len(vals) |->
                     ValEq(<<"A", "w", "a", "y">>, vals[k]) \/ ValEq(<<"2">>, vals[k])]),
                  bookmaker)
        Hit(h) == IF h = None THEN <<>>
                  ELSE Block(h[1].bet.values, h[1].book.name)
    IN  Hit(_pick_bookmaker(bks, RX_FIRST_HALF_WIN))

\* The five blocks in order; the TypeError of the Over/Under block leaves
\* extract_markets before anything is returned.
extract_markets(bks) ==
    LET Blocks(ou) ==
            IF ou.raised THEN ou
            ELSE Return(MatchWinnerMarket(bks) \o ou.val \o BttsMarket(bks)
                        \o HandicapMarket(bks) \o FirstHalfWinnerMarket(bks))
    IN  Blocks(OverUnderMarket(bks))

----------------------------------------------------------------------------
(* Inputs of the extraction *)

MaxBooks  == 2    \* bookmakers per odds item
MaxRich   == 2    \* values of a filler bet
MaxValues == 2    \* values of a bet whose outcomes are enumerated
MaxBets   == 2    \* bets of a bookmaker whose bet names are enumerated

\* All sequences over S of length at most n
SeqUpTo(S, n) == UNION { [1..k -> S] : k \in 0..n }

V(label, odd, handicap) == [value |-> label, odd |-> odd, handicap |-> handicap]
Bet(name, values) == [name |-> name, values |-> values]
Book(name, bets) == [name |-> name, bets |-> bets]

\* Ranking inputs: listed and unlisted bookmakers, each with no matching bet
\* or a Match Winner bet of 0..MaxRich values.
RankBookNames == { <<"P", "i", "n", "n", "a", "c", "l", "e">>, <<"B", "w", "i", "n">>, <<"U", "n", "i", "b", "e", "t">>, <<"1", "x", "B", "e", "t">> }
RankBooks ==
    { Book(n, <<>>) : n \in RankBookNames }
    \cup { Book(n, << Bet(<<"M", "a", "t", "c", "h", " ", "W", "i", "n", "n", "e", "r">>, [k \in 1..r |-> V(<<"H", "o", "m", "e">>, Some(150), <<>>)]) >>) :
             n \in RankBookNames, r \in 0..MaxRich }
RankInputs == SeqUpTo(RankBooks, MaxBooks)

\* Handicap inputs: one bookmaker, one Asian Handicap bet.
HandicapValues ==
    { V(<<"H", "o", "m", "e">>, Some(150), <<"-", "1">>),    V(<<"H", "o", "m", "e">>, Some(160), <<"+", "1">>),
      V(<<"H", "o", "m", "e">>, Some(170), <<"2", ".", "1">>),   V(<<"H", "o", "m", "e">>, Some(180), <<>>),
      V(<<"H", "o", "m", "e", " ", "-", "1">>, Some(190), <<>>), V(<<"H", "o", "m", "e", " ", "+", "1">>, Some(200), <<>>),
      V(<<"A", "w", "a", "y">>, Some(210), <<"+", "1">>),    V(<<"A", "w", "a", "y">>, Some(220), <<"-", "1">>),
      V(<<"A", "w", "a", "y", " ", "+", "1">>, Some(230), <<>>), V(<<"A", "w", "a", "y">>, Some(240), <<"1", ".", "5">>) }
HandicapInputs ==
    { << Book(<<"P", "i", "n", "n", "a", "c", "l", "e">>, << Bet(<<"A", "s", "i", "a", "n", " ", "H", "a", "n", "d", "i", "c", "a", "p">>, vs) >>) >> :
        vs \in SeqUpTo(HandicapValues, MaxValues) }

\* Over/Under inputs: one bookmaker, one Goals Over/Under bet.
OverUnderValues ==
    { V(<<"O", "v", "e", "r", " ", "2", ".", "5">>, Some(190), <<>>),  V(<<"O", "v", "e", "r", " ", "2", ".", "5">>, Some(0), <<>>),
      V(<<"O", "v", "e", "r", " ", "2", ".", "5">>, None, <<>>),       V(<<"U", "n", "d", "e", "r", " ", "2", ".", "5">>, Some(195), <<>>),
      V(<<"U", "n", "d", "e", "r", " ", "2", ".", "5">>, Some(0), <<>>),   V(<<"O", "v", "e", "r", " ", "2", ".", "2", "5">>, Some(185), <<>>),
      V(<<"O", "v", "e", "r", " ", "3", ".", "0">>, Some(210), <<>>),  V(<<"U", "n", "d", "e", "r", " ", "3", ".", "5">>, Some(120), <<>>),
      V(<<"O", "v", "e", "r">>, Some(191), <<"2", ".", "5">>),     V(<<"U", "n", "d", "e", "r">>, Some(175), <<"3">>) }
OverUnderInputs ==
    { << Book(<<"b", "e", "t", "3", "6", "5">>, << Bet(<<"G", "o", "a", "l", "s", " ", "O", "v", "e", "r", "/", "U", "n", "d", "e", "r">>, vs) >>) >> :
        vs \in SeqUpTo(OverUnderValues, MaxValues) }

\* Three-way and yes/no inputs: one bookmaker, one bet.
LegValues ==
    { V(<<"H", "o", "m", "e">>, Some(150), <<>>), V(<<"H", "o", "m", "e">>, Some(0), <<>>), V(<<"H", "o", "m", "e">>, None, <<>>),
      V(<<"D", "r", "a", "w">>, Some(320), <<>>), V(<<"D", "r", "a", "w">>, Some(0), <<>>), V(<<"x">>, Some(300), <<>>),
      V(<<"A", "w", "a", "y">>, Some(600), <<>>), V(<<"Y", "e", "s">>, Some(180), <<>>), V(<<"Y", "e", "s">>, Some(0), <<>>),
      V(<<"N", "o">>, Some(200), <<>>) }
LegBetNames == { <<"M", "a", "t", "c", "h", " ", "W", "i", "n", "n", "e", "r">>, <<"B", "T", "T", "S">>, <<"F", "i", "r", "s", "t", " ", "H", "a", "l", "f", " ", "W", "i", "n", "n", "e", "r">> }
LegInputs ==
    { << Book(<<"B", "e", "t", "w", "a", "y">>, << Bet(n, vs) >>) >> :
        n \in LegBetNames, vs \in SeqUpTo(LegValues, MaxValues) }

\* Bet-name inputs: one bookmaker whose bets all carry the same outcomes.
BetNames ==
    { <<"M", "a", "t", "c", "h", " ", "W", "i", "n", "n", "e", "r">>, <<"1", "X", "2">>, <<"G", "o", "a", "l", "s", " ", "O", "v", "e", "r", "/", "U", "n", "d", "e", "r">>, <<"B", "o", "t", "h", " ", "T", "e", "a", "m", "s", " ", "T", "o", " ", "S", "c", "o", "r", "e">>,
      <<"A", "s", "i", "a", "n", " ", "H", "a", "n", "d", "i", "c", "a", "p">>, <<"H", "a", "n", "d", "i", "c", "a", "p", " ", "R", "e", "s", "u", "l", "t">>, <<"H", "a", "n", "d", "i", "c", "a", "p", " ", "C", "o", "r", "n", "e", "r", "s">>,
      <<"H", "a", "n", "d", "i", "c", "a", "p", " ", "T", "o", "t", "a", "l", "s">>, <<"F", "i", "r", "s", "t", " ", "H", "a", "l", "f", " ", "W", "i", "n", "n", "e", "r">>, <<"F", "i", "r", "s", "t", " ", "H", "a", "l", "f", " ", "W", "i", "n", "n", "e", "r", " ", "T", "o", "t", "a", "l", "s">>,
      <<"C", "o", "r", "n", "e", "r", "s">> }
AllLegs ==
    << V(<<"H", "o", "m", "e">>, Some(150), <<"-", "1">>), V(<<"D", "r", "a", "w">>, Some(320), <<>>),
       V(<<"A", "w", "a", "y">>, Some(600), <<"+", "1">>), V(<<"O", "v", "e", "r", " ", "2", ".", "5">>, Some(190), <<>>),
       V(<<"U", "n", "d", "e", "r", " ", "2", ".", "5">>, Some(195), <<>>), V(<<"Y", "e", "s">>, Some(180), <<>>),
       V(<<"N", "o">>, Some(200), <<>>) >>
NameInputs ==
    { << Book(<<"U", "n", "i", "b", "e", "t">>, [k \in 1..Len(ns) |-> Bet(ns[k], AllLegs)]) >> :
        ns \in SeqUpTo(BetNames, MaxBets) }

BooksInputs ==
    RankInputs \cup HandicapInputs \cup OverUnderInputs \cup LegInputs \cup NameInputs

MarketKeys == { "matchWinner", "overUnder", "btts", "handicap", "firstHalfWinner" }

\* The pattern _pick_bookmaker is called with for each market
RxOf(key) ==
    CASE key = "matchWinner" -> RX_MATCH_WINNER
      [] key = "overUnder" -> RX_OVER_UNDER
      [] key = "btts" -> RX_BTTS
      [] key = "handicap" -> RX_HANDICAP
      [] key = "firstHalfWinner" -> RX_FIRST_HALF_WIN

----------------------------------------------------------------------------
(* Specification of the extraction: an input, then one call on it *)

\* The state of the parts a specification does not exercise
MergeIdle ==
    /\ items = <<>>
    /\ idx = 1
    /\ by_fixture = <<>>

StoreIdle ==
    /\ now = 0
    /\ fs = <<>>
    /\ retention_days = 0
    /\ runs = 0
    /\ date = <<>>
    /\ content = 0
    /\ saved = None
    /\ walk = <<>>
    /\ todo = <<>>
    /\ removed = <<>>
    /\ stdout = None
    /\ caller = "main"
    /\ fs0 = <<>>
    /\ fsp = <<>>
    /\ log = <<>>
    /\ caught = {}
    /\ firstClean = FALSE

ExtractIdle ==
    /\ books = <<>>
    /\ hit = None
    /\ out = None

Init ==
    /\ books \in BooksInputs
    /\ hit = None
    /\ out = None
    /\ pc = "extract"
    /\ err = None
    /\ MergeIdle
    /\ StoreIdle

\* hit = _pick_bookmaker(books, RX_...)
PickBookmaker ==
    /\ pc = "extract"
    /\ \E key \in MarketKeys :
          hit' = Some([key |-> key, pick |-> _pick_bookmaker(books, RxOf(key))])
    /\ pc' = "returned"
    /\ UNCHANGED <<books, out, mergeVars, err, storeVars>>

\* markets = extract_markets(books)
ExtractMarkets ==
    /\ pc = "extract"
    /\ out' = Some(extract_markets(books))
    /\ pc' = "returned"
    /\ UNCHANGED <<books, hit, mergeVars, err, storeVars>>

Next == PickBookmaker \/ ExtractMarkets

Spec == Init /\ [][Next]_vars

----------------------------------------------------------------------------
(* Claims about the extraction (specification Spec) *)

\* The claim's weight of a bookmaker name: len(PREFERRED_BOOKMAKERS) + 2 -
\* index for a listed one, 1 for an unlisted one.
Listed(name) == \E k \in 1..Len(PREFERRED_BOOKMAKERS) : PREFERRED_BOOKMAKERS[k] = name
ListIndex(name) == (CHOOSE k \in 1..Len(PREFERRED_BOOKMAKERS) : PREFERRED_BOOKMAKERS[k] = name) - 1
ClaimWeight(name) ==
    IF Listed(name) THEN Len(PREFERRED_BOOKMAKERS) + 2 - ListIndex(name) ELSE 1

\* The bookmakers of bks with a bet whose name matches rx, the matched
\* (first such) bet of each, and the claim's score.
HasMatch(bk, rx) == \E k \in 1..Len(bk.bets) : ReSearch(rx, bk.bets[k].name, TRUE)
MatchedPos(bks, rx) == { k \in 1..Len(bks) : HasMatch(bks[k], rx) }
MatchedBetPos(bk, rx) == Min({ k \in 1..Len(bk.bets) : ReSearch(rx, bk.bets[k].name, TRUE) })
MatchedBet(bk, rx) == bk.bets[MatchedBetPos(bk, rx)]
ClaimScore(bk, rx) == ClaimWeight(bk.name) * 100 + Len(MatchedBet(bk, rx).values)

\* C1: _pick_bookmaker returns nothing when no bookmaker has a matching bet,
\* and otherwise the first bookmaker in input order that attains the maximum
\* of weight*100 + number of values of its matched bet; so a listed bookmaker
\* beats an equally rich unlisted one, and of two unlisted bookmakers the one
\* with more values wins.
C1_PickFirstMaxScore ==
    hit # None =>
        LET rx      == RxOf(hit[1].key)
            pick    == hit[1].pick
            matched == MatchedPos(books, rx)
            best    == { k \in matched :
                           \A j \in matched :
                              ClaimScore(books[j], rx) <= ClaimScore(books[k], rx) }
        IN  IF matched = {} THEN pick = None
            ELSE /\ pick # None
                 /\ pick[1].pos = Min(best)
                 /\ pick[1].book = books[pick[1].pos]
                 /\ pick[1].bet = MatchedBet(pick[1].book, rx)
                 /\ \A i, j \in matched :
                       /\ Listed(books[i].name) /\ ~Listed(books[j].name)
                       /\ Len(MatchedBet(books[i], rx).values)
                            = Len(MatchedBet(books[j], rx).values)
                       => pick[1].pos # j
                 /\ \A i, j \in matched :
                       /\ ~Listed(books[i].name) /\ ~Listed(books[j].name)
                       /\ Len(MatchedBet(books[i], rx).values)
                            > Len(MatchedBet(books[j], rx).values)
                       => pick[1].pos # j

\* C1 witness: two different bookmakers with a matching bet tie on the
\* maximum score and the first one is returned.
C1_Witness ==
    /\ hit # None /\ hit[1].pick # None
    /\ Len(books) = 2
    /\ MatchedPos(books, RxOf(hit[1].key)) = {1, 2}
    /\ books[1].name # books[2].name
    /\ ClaimScore(books[1], RxOf(hit[1].key)) = ClaimScore(books[2], RxOf(hit[1].key))
    /\ hit[1].pick[1].pos = 1

\* The value the claim expects a nearest-line pick to be: among the values
\* of one direction whose line text holds a number, the first at the least
\* distance from the target.
HasNumber(v) == ReSearchGroup0(RX_NUMBER, LineText(v), FALSE) # None
LineDist(v) == Abs(ParseFloat(ReSearchGroup0(RX_NUMBER, LineText(v), FALSE)[1]) - TARGET)
ClaimNearest(arr) ==
    LET cand == { k \in 1..Len(arr) : HasNumber(arr[k]) }
    IN  arr[Min({ k \in cand : \A j \in cand : LineDist(arr[k]) <= LineDist(arr[j]) })]

NoExact(arr) == ~\E k \in 1..Len(arr) : HasTargetText(arr[k])
SomeNumbered(arr) == \E k \in 1..Len(arr) : HasNumber(arr[k])

\* C2: when the winning bookmaker of the Over/Under selection has no Over
\* outcome whose line text contains "2.5", the over pick is the Over outcome
\* whose numeric line is nearest to 2.5 (the first on equal distance), the
\* same for Under, and the overUnder market is emitted.
C2_NearestFallback ==
    out # None =>
        LET h == _pick_bookmaker(books, RX_OVER_UNDER)
        IN  h # None =>
              LET vals   == h[1].bet.values
                  overs  == SelectSeq(vals, IsOver)
                  unders == SelectSeq(vals, IsUnder)
                  ou     == IF out[1].raised THEN None
                            ELSE DictGet(out[1].val, "overUnder")
              IN  /\ NoExact(overs) /\ SomeNumbered(overs)
                       => ou # None /\ ou[1].over = ClaimNearest(overs).odd
                  /\ NoExact(unders) /\ SomeNumbered(unders)
                       => ou # None /\ ou[1].under = ClaimNearest(unders).odd

\* The bet a market of out was taken from: its bookmaker's and its own
\* position in the input.
SourceBet(key) ==
    LET h == _pick_bookmaker(books, RxOf(key)) IN << h[1].pos, h[1].betpos >>

\* C3: within one extract_markets call no bet is the source of two different
\* market types, and a bet whose name satisfies no rule is the source of none.
C3_OneTypePerBet ==
    out # None /\ ~out[1].raised =>
        /\ \A k1, k2 \in DictKeys(out[1].val) :
              k1 # k2 => SourceBet(k1) # SourceBet(k2)
        /\ \A k \in DictKeys(out[1].val) :
              LET sb == SourceBet(k)
              IN  \E key \in MarketKeys :
                     ReSearch(RxOf(key), books[sb[1]].bets[sb[2]].name, TRUE)

\* The claim's Home -1 and Away +1 outcomes.
RX_EXACT_M1 == Cat(<< Bol, Lit(<<"-", "1">>), Opt(Lit(<<".", "0">>)), Eol >>)
ClaimHomeMinus1(v) ==
    \/ /\ ReSearch(RX_HOME, v.value, TRUE)
       /\ ReSearch(RX_EXACT_M1, LineText(v), FALSE)
    \/ ReMatch(RX_HOME_M1, v.value, TRUE)
ClaimAwayPlus1(v) ==
    \/ /\ ReSearch(RX_AWAY, v.value, TRUE)
       /\ ReSearch(RX_LINE_P1, LineText(v), FALSE)
    \/ ReMatch(RX_AWAY_P1, v.value, TRUE)

\* C4: homeMinus1 is only ever the odd of a home outcome on the line -1 and
\* awayPlus1 only ever the odd of an away outcome on the line +1.
C4_HandicapExactLines ==
    out # None /\ ~out[1].raised /\ "handicap" \in DictKeys(out[1].val) =>
        LET m    == DictGet(out[1].val, "handicap")[1]
            vals == _pick_bookmaker(books, RX_HANDICAP)[1].bet.values
            hk   == FirstPos([k \in 1..Len(vals) |-> IsHomeMinus1(vals[k])])
            ak   == FirstPos([k \in 1..Len(vals) |-> IsAwayPlus1(vals[k])])
        IN  /\ m.homeMinus1 # None => hk # 0 /\ ClaimHomeMinus1(vals[hk])
            /\ m.awayPlus1 # None => ak # 0 /\ ClaimAwayPlus1(vals[ak])

\* The price fields of each market
PriceFields(key) ==
    CASE key = "matchWinner" -> { "home", "draw", "away" }
      [] key = "overUnder" -> { "over", "under" }
      [] key = "btts" -> { "yes", "no" }
      [] key = "handicap" -> { "homeMinus1", "awayPlus1" }
      [] key = "firstHalfWinner" -> { "home", "draw", "away" }

\* C5: every price field of an emitted market is absent or strictly
\* positive, and an emitted market has at least one present leg.
C5_PricesPositive ==
    out # None /\ ~out[1].raised =>
        \A k \in 1..Len(out[1].val) :
            LET key == out[1].val[k][1]
                m   == out[1].val[k][2]
            IN  /\ \A f \in PriceFields(key) : m[f] = None \/ m[f][1] > 0
                /\ \E f \in PriceFields(key) : m[f] # None /\ m[f][1] > 0

----------------------------------------------------------------------------
(* main: the merge of the odds items into by_fixture *)

MaxItems == 3    \* odds items of one run

\* bool(v) of a market dict
NonEmpty(v) == DOMAIN v # {}

\* {k: v for k, v in markets.items() if v}
TruthyEntries(m) == SelectSeq(m, LAMBDA e : NonEmpty(e[2]))

\* Mutant of MergeMarkets: an earlier value is kept
MergeMarkets_KeepFirst(d, m) == DictUpdate(TruthyEntries(m), d)

\* by_fixture[fid]["markets"].update({k: v for k, v in markets.items() if v})
MergeMarkets(d, m) == DictUpdate(d, TruthyEntries(m))

B_mw1   == << Book(<<"P", "i", "n", "n", "a", "c", "l", "e">>, << Bet(<<"M", "a", "t", "c", "h", " ", "W", "i", "n", "n", "e", "r">>, << V(<<"H", "o", "m", "e">>, Some(150), <<>>) >>) >>) >>
B_mw2   == << Book(<<"B", "w", "i", "n">>, << Bet(<<"1", "X", "2">>, << V(<<"H", "o", "m", "e">>, Some(170), <<>>) >>),
                              Bet(<<"B", "T", "T", "S">>, << V(<<"Y", "e", "s">>, Some(180), <<>>) >>) >>) >>
B_ou    == << Book(<<"b", "e", "t", "3", "6", "5">>, << Bet(<<"G", "o", "a", "l", "s", " ", "O", "v", "e", "r", "/", "U", "n", "d", "e", "r">>, << V(<<"O", "v", "e", "r", " ", "2", ".", "5">>, Some(190), <<>>) >>) >>) >>
B_raise == << Book(<<"b", "e", "t", "3", "6", "5">>, << Bet(<<"G", "o", "a", "l", "s", " ", "O", "v", "e", "r", "/", "U", "n", "d", "e", "r">>, << V(<<"O", "v", "e", "r", " ", "3", ".", "0">>, Some(210), <<>>) >>) >>) >>

\* Odds items: fixture 1 with every bookmakers list, fixture 2 with two, and
\* an item without fixture id (0) and one of a fixture that was not fetched.
FixtureIds == { 1, 2 }
OddsItems ==
    { [fid |-> 1, books |-> b] : b \in { B_mw1, B_mw2, B_ou, B_raise, <<>> } }
    \cup { [fid |-> 2, books |-> b] : b \in { B_mw1, B_mw2 } }
    \cup { [fid |-> 0, books |-> B_mw1], [fid |-> 9, books |-> B_mw1] }

InitMerge ==
    /\ items \in SeqUpTo(OddsItems, MaxItems)
    /\ idx = 1
    /\ by_fixture = [f \in FixtureIds |-> <<>>]
    /\ pc = "odds"
    /\ err = None
    /\ ExtractIdle
    /\ StoreIdle

\* One pass of the loop `for it in items`, lines 352-359
OddsItem ==
    /\ pc = "odds"
    /\ idx <= Len(items)
    /\ LET it  == items[idx]
           fid == it.fid
       IN  IF fid = 0 \/ fid \notin DOMAIN by_fixture
           THEN /\ idx' = idx + 1
                /\ UNCHANGED <<by_fixture, pc, err>>
           ELSE LET markets == extract_markets(it.books)
                IN  IF markets.raised
                    THEN /\ pc' = "failed"
                         /\ err' = Some(markets.val)
                         /\ UNCHANGED <<by_fixture, idx>>
                    ELSE /\ by_fixture' =
                              IF markets.val # <<>>
                              THEN [by_fixture EXCEPT ![fid] = MergeMarkets(@, markets.val)]
                              ELSE by_fixture
                         /\ idx' = idx + 1
                         /\ UNCHANGED <<pc, err>>
    /\ UNCHANGED <<items, extractVars, storeVars>>

\* The loop is over: main goes on to sort and save
OddsDone ==
    /\ pc = "odds"
    /\ idx > Len(items)
    /\ pc' = "merged"
    /\ UNCHANGED <<mergeVars, err, extractVars, storeVars>>

NextMerge == OddsItem \/ OddsDone

SpecMerge == InitMerge /\ [][NextMerge]_vars

\* The items of fixture f that produced a value for key
Producers(f, key) ==
    { k \in 1..Len(items) :
        /\ items[k].fid = f
        /\ ~extract_markets(items[k].books).raised
        /\ key \in DictKeys(extract_markets(items[k].books).val) }

\* C6: after all odds items of a run are merged, a fixture's markets map
\* holds for each market type the value extracted from the last item that
\* produced one for it, nothing for a type no item produced, and one entry
\* per type at most.
C6_LastValueWins ==
    pc = "merged" =>
        \A f \in DOMAIN by_fixture :
            /\ \A key \in MarketKeys :
                  LET prod == Producers(f, key)
                  IN  IF prod = {} THEN DictGet(by_fixture[f], key) = None
                      ELSE LET last == Max(prod)
                               m    == extract_markets(items[last].books).val
                           IN  DictGet(by_fixture[f], key) = DictGet(m, key)
            /\ DictKeys(by_fixture[f]) \subseteq MarketKeys
            /\ Cardinality(DictKeys(by_fixture[f])) = Len(by_fixture[f])

\* C6 witness: two items produced different matchWinner values for fixture 1
\* and a later item of the same fixture produced none.
C6_Witness ==
    /\ pc = "merged"
    /\ Len(items) = 3
    /\ \A k \in 1..3 : items[k].fid = 1
    /\ Producers(1, "matchWinner") = {1, 2}
    /\ items[1].books # items[2].books
    /\ Producers(1, "overUnder") = {3}
    /\ Len(by_fixture[1]) >= 2

----------------------------------------------------------------------------
(* The snapshot store: save_snapshot and prune_old_snapshots, as main and  *)
(* a direct caller run them.  Paths are relative to out_dir, a path is the *)
(* sequence of its components.                                             *)

MaxRuns   == 2          \* runs of main
MaxFaults == 1          \* stat/remove failures during one prune call
DAY       == 86400      \* seconds per day, line 285

\* gz_path: {year}/{month}/{date_str}.json.gz with year = date_str[0:4] and
\* month = date_str[5:7]
GzPath(date_str) ==
    << SubSeq(date_str, 1, 4), SubSeq(date_str, 6, 7), date_str \o <<".", "j", "s", "o", "n", ".", "g", "z">> >>

\* latest_path
LatestPath == << <<"l", "a", "t", "e", "s", "t", ".", "j", "s", "o", "n">> >>

\* Another artefact under out_dir, not an archive
NotesPath == << <<"2", "0", "2", "4">>, <<"n", "o", "t", "e", "s", ".", "j", "s", "o", "n">> >>

\* Archives of earlier runs
OldDateA == <<"2", "0", "2", "4", "-", "1", "1", "-", "2", "0">>
OldDateB == <<"2", "0", "2", "4", "-", "1", "2", "-", "0", "5">>

\* The days on which runs happen, 91 days apart
RunDates == << <<"2", "0", "2", "5", "-", "0", "3", "-", "0", "1">>, <<"2", "0", "2", "5", "-", "0", "5", "-", "3", "1">>, <<"2", "0", "2", "5", "-", "0", "8", "-", "3", "0">>, <<"2", "0", "2", "5", "-", "1", "1", "-", "2", "9">> >>
StartTime == 400 * DAY
Quarter == 91 * DAY

\* today_ymd(): the date of the clock
Today(t) ==
    LET k == ((t - StartTime) \div Quarter) + 1
    IN  RunDates[IF k > Len(RunDates) THEN Len(RunDates) ELSE k]

\* Time that passes before a run: none (a second run on the same day) or 91 days
Elapsed == { 0, Quarter }

Paths ==
    { GzPath(RunDates[k]) : k \in 1..Len(RunDates) }
    \cup { GzPath(OldDateA), GzPath(OldDateB), LatestPath, NotesPath }

\* The order in which os.walk lists the files (top-down: out_dir first)
WalkOrder ==
    << LatestPath, NotesPath, GzPath(OldDateA), GzPath(OldDateB) >>
    \o [k \in 1..Len(RunDates) |-> GzPath(RunDates[k])]

Reverse(seq) == [k \in 1..Len(seq) |-> seq[Len(seq) + 1 - k]]

File(c, mtime) == [content |-> c, mtime |-> mtime]

\* The content a failed write may leave behind
Partial(c) == 0 - c

OldAges == { 90 * DAY, 90 * DAY + 1, 100 * DAY }
RetentionChoices == { 0 - 1, 0, 90 }

InitStore ==
    /\ now = StartTime
    /\ retention_days \in RetentionChoices
    /\ \E a \in OldAges :
          fs = [p \in Paths |->
                  CASE p = GzPath(OldDateA) -> Some(File(90, now - a))
                    [] p = GzPath(OldDateB) -> Some(File(91, now - 10 * DAY))
                    [] p = NotesPath -> Some(File(92, now - 100 * DAY))
                    [] p = LatestPath -> Some(File(91, now - 100 * DAY))
                    [] OTHER -> None]
    /\ runs = 0
    /\ date = <<>>
    /\ content = 0
    /\ saved = None
    /\ walk = <<>>
    /\ todo = <<>>
    /\ removed = <<>>
    /\ stdout = None
    /\ caller = "main"
    /\ fs0 = fs
    /\ fsp = fs
    /\ log = <<>>
    /\ caught = {}
    /\ firstClean = FALSE
    /\ pc = "idle"
    /\ err = None
    /\ ExtractIdle
    /\ MergeIdle

\* A run of main reaches save_snapshot (line 366) with the snapshot of the day
StartRun ==
    /\ pc \in { "idle", "done", "failed" }
    /\ caller = "main"
    /\ runs < MaxRuns
    /\ \E dt \in Elapsed :
          /\ now' = now + dt
          /\ date' = Today(now + dt)
    /\ runs' = runs + 1
    /\ content' = runs + 1
    /\ pc' = "save_gz"
    /\ err' = None
    /\ saved' = None
    /\ stdout' = None
    /\ removed' = <<>>
    /\ walk' = <<>>
    /\ todo' = <<>>
    /\ fs0' = fs
    /\ fsp' = fs
    /\ log' = <<>>
    /\ caught' = {}
    /\ firstClean' = FALSE
    /\ UNCHANGED <<fs, retention_days, caller, extractVars, mergeVars>>

\* What a write of content c to path p can do: succeed, fail before the
\* file is opened (makedirs, open), or fail after it was opened for writing.
WriteOutcomes == { "ok", "error", "error_partial" }

Written(f, p, c, outcome) ==
    CASE outcome = "ok" -> [f EXCEPT ![p] = Some(File(c, now))]
      [] outcome = "error" -> f
      [] outcome = "error_partial" -> [f EXCEPT ![p] = Some(File(Partial(c), now))]

\* Mutant of AfterArchive: a failed archive write is swallowed
AfterArchive_Swallow(outcome) ==
    /\ pc' = "save_latest"
    /\ err' = None

\* Where save_snapshot goes after the archive write: on to the latest.json
\* write, or out with the exception.
AfterArchive(outcome) ==
    IF outcome = "ok"
    THEN /\ pc' = "save_latest"
         /\ err' = None
    ELSE /\ pc' = "failed"
         /\ err' = Some("archive write")

\* save_snapshot, lines 253-267: the directories and the gzip write
SaveArchive ==
    /\ pc = "save_gz"
    /\ \E outcome \in WriteOutcomes :
          /\ fs' = Written(fs, GzPath(date), content, outcome)
          /\ log' = Append(log, IF outcome = "ok" THEN "archive_ok" ELSE "archive_fail")
          /\ AfterArchive(outcome)
    /\ UNCHANGED <<now, retention_days, runs, date, content, saved, walk, todo,
                   removed, stdout, caller, fs0, fsp, caught, firstClean,
                   extractVars, mergeVars>>

\* save_snapshot, lines 269-273: the latest.json write and the return
SaveLatest ==
    /\ pc = "save_latest"
    /\ \E outcome \in WriteOutcomes :
          /\ fs' = Written(fs, LatestPath, content, outcome)
          /\ log' = Append(log, IF outcome = "ok" THEN "latest_ok" ELSE "latest_fail")
          /\ IF outcome = "ok"
             THEN /\ pc' = "prune"
                  /\ saved' = Some(GzPath(date))
                  /\ err' = None
             ELSE /\ pc' = "failed"
                  /\ saved' = None
                  /\ err' = Some("latest write")
    /\ UNCHANGED <<now, retention_days, runs, date, content, walk, todo, removed,
                   stdout, caller, fs0, fsp, caught, firstClean,
                   extractVars, mergeVars>>

\* Where prune_old_snapshots returns to
Returned == IF caller = "main" THEN "print" ELSE "done"

\* prune_old_snapshots, lines 281-286: the early return, or the listing
PruneBegin ==
    /\ pc = "prune"
    /\ removed' = <<>>
    /\ caught' = {}
    /\ fsp' = fs
    /\ log' = Append(log, "prune")
    /\ IF retention_days <= 0
       THEN /\ pc' = Returned
            /\ walk' = <<>>
            /\ todo' = <<>>
       ELSE /\ pc' = "scan"
            /\ \E order \in { WalkOrder, Reverse(WalkOrder) } :
                  walk' = SelectSeq(order, LAMBDA p : fs[p] # None)
            /\ todo' = walk'
    /\ UNCHANGED <<now, fs, retention_days, runs, date, content, saved, stdout,
                   caller, fs0, firstClean, err, extractVars, mergeVars>>

\* cutoff = time.time() - (retention_days * 86400)
Cutoff == now - retention_days * DAY

\* Mutant of IsOlder: a file exactly at the cutoff counts as old
IsOlder_OrEqual(mtime, cutoff) == mtime <= cutoff

\* st.st_mtime < cutoff
IsOlder(mtime, cutoff) == mtime < cutoff

\* The files the loop does not skip by name
IsArchiveName(fn) == fn # <<"l", "a", "t", "e", "s", "t", ".", "j", "s", "o", "n">> /\ EndsWith(fn, <<".", "j", "s", "o", "n", ".", "g", "z">>)

\* What stat and remove of a file can do: succeed, raise FileNotFoundError
\* (the file went away meanwhile), or raise another exception.
TryOutcomes == { "ok", "gone", "oserror" }

\* Mutant of TryRemove: an exception other than FileNotFoundError leaves
\* prune_old_snapshots
TryRemove_Abort(p, outcome) ==
    CASE outcome = "ok" ->
            IF IsOlder(fs[p][1].mtime, Cutoff)
            THEN /\ fs' = [fs EXCEPT ![p] = None]
                 /\ removed' = Append(removed, p)
                 /\ UNCHANGED <<caught, pc, err>>
            ELSE UNCHANGED <<fs, removed, caught, pc, err>>
      [] outcome = "gone" ->
            /\ fs' = [fs EXCEPT ![p] = None]
            /\ caught' = caught \cup {p}
            /\ UNCHANGED <<removed, pc, err>>
      [] outcome = "oserror" ->
            /\ pc' = "failed"
            /\ err' = Some("OSError")
            /\ UNCHANGED <<fs, removed, caught>>

\* The try block of lines 294-302 on file p
TryRemove(p, outcome) ==
    CASE outcome = "ok" ->
            IF IsOlder(fs[p][1].mtime, Cutoff)
            THEN /\ fs' = [fs EXCEPT ![p] = None]
                 /\ removed' = Append(removed, p)
                 /\ UNCHANGED <<caught, pc, err>>
            ELSE UNCHANGED <<fs, removed, caught, pc, err>>
      [] outcome = "gone" ->
            /\ fs' = [fs EXCEPT ![p] = None]
            /\ caught' = caught \cup {p}
            /\ UNCHANGED <<removed, pc, err>>
      [] outcome = "oserror" ->
            /\ caught' = caught \cup {p}
            /\ UNCHANGED <<fs, removed, pc, err>>

\* One pass of the loops of lines 286-302: the next file of the walk
PruneFile ==
    /\ pc = "scan"
    /\ todo # <<>>
    /\ LET p == Head(todo)
       IN  /\ todo' = Tail(todo)
           /\ IF IsArchiveName(p[Len(p)])
              THEN \E outcome \in TryOutcomes :
                      /\ outcome # "ok" => Cardinality(caught) < MaxFaults
                      /\ TryRemove(p, outcome)
              ELSE UNCHANGED <<fs, removed, caught, pc, err>>
    /\ UNCHANGED <<now, retention_days, runs, date, content, saved, walk, stdout,
                   caller, fs0, fsp, log, firstClean, extractVars, mergeVars>>

\* line 303: return removed
PruneReturn ==
    /\ pc = "scan"
    /\ todo = <<>>
    /\ pc' = Returned
    /\ UNCHANGED <<err, extractVars, mergeVars, storeVars>>

\* main, lines 372-378: the summary of a run that saved and pruned
PrintSummary ==
    /\ pc = "print"
    /\ stdout' = Some([saved_gzip |-> saved[1], removed_count |-> Len(removed),
                       retention_days |-> retention_days, snapshot |-> content])
    /\ log' = Append(log, "print")
    /\ pc' = "done"
    /\ UNCHANGED <<now, fs, retention_days, runs, date, content, saved, walk, todo,
                   removed, caller, fs0, fsp, caught, firstClean, err,
                   extractVars, mergeVars>>

\* prune_old_snapshots(out_dir, retention_days) called on its own: before any
\* run, or again right after a run, with no time passed and no file added
PruneDirect ==
    /\ pc \in { "idle", "done" }
    /\ caller = "main"
    /\ caller' = "direct"
    /\ firstClean' = (pc = "done" /\ caught = {})
    /\ pc' = "prune"
    /\ UNCHANGED <<now, fs, retention_days, runs, date, content, saved, walk, todo,
                   removed, stdout, fs0, fsp, log, caught, err,
                   extractVars, mergeVars>>

NextStore ==
    \/ StartRun
    \/ SaveArchive
    \/ SaveLatest
    \/ PruneBegin
    \/ PruneFile
    \/ PruneReturn
    \/ PrintSummary
    \/ PruneDirect

SpecStore == InitStore /\ [][NextStore]_vars

----------------------------------------------------------------------------
(* Claims about the snapshot store (specification SpecStore) *)

IsArchivePath(p) == p # LatestPath /\ EndsWith(p[Len(p)], <<".", "j", "s", "o", "n", ".", "g", "z">>)

\* C7: once an archive file has been written its content never changes for
\* as long as it exists: a step may delete it, never rewrite it.
C7_ArchiveImmutable ==
    [][\A p \in Paths :
          IsArchivePath(p) /\ fs[p] # None /\ fs'[p] # None
              => fs'[p][1].content = fs[p][1].content]_vars

\* C8: the archive write comes strictly before the latest.json write; when
\* the archive write fails the latest.json write is never attempted and
\* latest.json is as the run found it; when either write fails the run ends
\* with the error, save_snapshot returns no path, and nothing is pruned or
\* printed.
C8_SaveOrderedAndExplicit ==
    /\ \A i \in 1..Len(log) :
          log[i] \in { "archive_fail", "latest_fail" }
              => /\ i = Len(log)
                 /\ pc = "failed"
                 /\ err # None
                 /\ saved = None
                 /\ stdout = None
    /\ \A i \in 1..Len(log) :
          log[i] \in { "latest_ok", "latest_fail" } => i = 2 /\ log[1] = "archive_ok"
    /\ (\A i \in 1..Len(log) : log[i] \notin { "latest_ok", "latest_fail" })
          => fs[LatestPath] = fs0[LatestPath]
    /\ \A i \in 1..Len(log) :
          log[i] \in { "prune", "print" } /\ runs > 0 /\ caller = "main"
              => /\ Len(log) >= 2 /\ log[1] = "archive_ok" /\ log[2] = "latest_ok"
                 /\ saved = Some(GzPath(date))

\* C8 witness: the archive write failed half way; latest.json is untouched
\* and the run is over with the error.
C8_Witness ==
    /\ pc = "failed"
    /\ log = << "archive_fail" >>
    /\ fs[GzPath(date)] # fs0[GzPath(date)]
    /\ fs[LatestPath] = fs0[LatestPath]
    /\ fs0[LatestPath] # None

\* The current (or last) prune call: what it visited, what it returns, and
\* the files it had to remove.
VisitedSet == { walk[k] : k \in 1..(Len(walk) - Len(todo)) }
RemovedSet == { removed[k] : k \in 1..Len(removed) }
WasOld(p) == fsp[p] # None /\ fsp[p][1].mtime < now - retention_days * 86400
InPruneCall == pc \in { "scan", "print", "done" }

\* C9: for retention_days > 0 a file is removed only if it has the archive
\* extension, is not latest.json and is strictly older than now -
\* retention_days*86400; every such file whose removal succeeds is removed
\* and returned; files at or newer than the cutoff and latest.json are kept.
\* For retention_days <= 0 nothing is scanned or removed.
C9_PruneOnlyOldArchives ==
    InPruneCall =>
        IF retention_days > 0
        THEN /\ \A p \in RemovedSet :
                   IsArchivePath(p) /\ WasOld(p) /\ fs[p] = None
             /\ \A p \in VisitedSet :
                   IsArchivePath(p) /\ WasOld(p) /\ p \notin caught
                       => p \in RemovedSet /\ fs[p] = None
             /\ \A p \in Paths :
                   fsp[p] # None /\ ~WasOld(p) /\ p \notin caught => fs[p] = fsp[p]
             /\ \A p \in Paths : ~IsArchivePath(p) => fs[p] = fsp[p]
             /\ fs[LatestPath] = fsp[LatestPath]
        ELSE removed = <<>> /\ walk = <<>> /\ fs = fsp

\* C9 witness: at retention 90 a prune call returned having removed the
\* 100-day-old archive and kept the 10-day-old one and a 100-day-old
\* latest.json.
C9_Witness ==
    /\ pc = "done" /\ caller = "direct" /\ runs = 0
    /\ retention_days = 90
    /\ fsp[GzPath(OldDateA)] = Some(File(90, now - 100 * 86400))
    /\ removed = << GzPath(OldDateA) >>
    /\ fs[GzPath(OldDateA)] = None
    /\ fs[GzPath(OldDateB)] = Some(File(91, now - 10 * 86400))
    /\ fs[LatestPath] = Some(File(91, now - 100 * 86400))

====
